---- MODULE Spec2Model ----
(***************************************************************************)
(* Modbus master engine: the frame codec, the MasterContract helpers, the  *)
(* serial (RTU) transport and the datagram (UDP) transport, as state       *)
(* machines translated from the C++ sources.                               *)
(*                                                                         *)
(* Bytes are naturals 0..255, byte buffers are sequences (index 1 is the   *)
(* C++ index 0).  Time is in milliseconds.                                 *)
(***************************************************************************)
EXTENDS Integers, Sequences, FiniteSets, TLC

VARIABLES
    transport,      \* which SsModbusMaster implementation was constructed
    pc,             \* per caller thread: position in its current call
    loc,            \* per caller thread: the locals of its current call
    now,            \* std::chrono::steady_clock::now(), ms
    ncalls,         \* calls started so far (bounded by MaxCalls)
    ended,          \* the call that ended in the last step, if one did
    rtu_mutex_,     \* ModbusRtuMaster::Impl::mutex_ : 0 = free, else holder
    rxbuf,          \* serial channel: bytes buffered by the OS, readable now
    wire,           \* serial channel: bursts of bytes the device has yet to put on the line
    awaiting,       \* serial channel: a written request the device has not answered
    device,         \* the slave of this run: how it answers a request
    udp_mutex_,     \* ModbusUdpMaster::Impl::mutex_ : 0 = free, else holder
    responseQueue_, \* ModbusUdpMaster::Impl::responseQueue_
    status_,        \* ModbusUdpMaster::Impl::status_
    minPollingInterval_,
    lastPollTime_,
    bus,            \* message bus: datagrams on their way to the handler
    expired,        \* the queries that ended with "Response timeout" (by the
                    \* value total_queries took when they incremented it)
    lastQuerySent,  \* when query last handed a frame to the bus (-1: never)
    callback,       \* the bus thread: where it is in ModbusUdpResponseHandler::handleMsg
    codec           \* the frame codec at work on one input

rtuVars == <<rtu_mutex_, rxbuf, wire, awaiting>>
udpVars == <<udp_mutex_, responseQueue_, status_, minPollingInterval_,
             lastPollTime_, bus, expired, lastQuerySent, callback>>
vars == <<transport, pc, loc, now, ncalls, ended, rtu_mutex_, rxbuf, wire,
          awaiting, device, udp_mutex_, responseQueue_, status_,
          minPollingInterval_, lastPollTime_, bus, expired, lastQuerySent,
          callback, codec>>

----------------------------------------------------------------------------
(* Bounds of the model *)

NumThreads == 2
MaxCalls == 2

Threads == 1..NumThreads
NoThread == 0

----------------------------------------------------------------------------
(* modbus_types.h *)

READ_COILS == 1
READ_HOLDING_REGISTERS == 3
READ_INPUT_REGISTERS == 4
WRITE_SINGLE_REGISTER == 6
WRITE_MULTIPLE_REGISTERS == 16

NO_ERROR == 0

\* A scalar member that no constructor initialises holds an indeterminate
\* value; these are the byte values the model lets it take.
Indeterminate == {0, 171}

ModbusRequest(slave, fc, start, count, values) ==
    [slave_address |-> slave, function_code |-> fc, start_address |-> start,
     register_count |-> count, values |-> values]

\* `ModbusResponse response;` : data is an empty vector, the scalars are
\* whatever the caller assigns later (error is passed in by the caller).
ModbusResponse(slave, fc, data, error) ==
    [slave_address |-> slave, function_code |-> fc, data |-> data, error |-> error]

----------------------------------------------------------------------------
(* Bit operations on unsigned integers *)

RECURSIVE XorN(_, _, _)
XorN(a, b, n) ==
    IF n = 0 THEN 0
    ELSE (((a % 2) + (b % 2)) % 2) + 2 * XorN(a \div 2, b \div 2, n - 1)

Xor16(a, b) == XorN(a, b, 16)

IsException(fc) == (fc \div 128) % 2 = 1     \* fc & 0x80

----------------------------------------------------------------------------
(* Frame codec *)

\* The running crc is carried as a one-element set, so that every step works
\* on a computed value.
\* one turn of the inner `for (int j = 0; j < 8; ++j)` loop of calculate_crc
crc_bit(S) ==
    { IF crc % 2 = 1 THEN Xor16(crc \div 2, 40961)   \* (crc >> 1) ^ 0xA001
      ELSE crc \div 2 : crc \in S }

\* crc ^= data[i], then the eight turns of the inner loop
crc_byte(crc, byte) ==
    CHOOSE r \in crc_bit(crc_bit(crc_bit(crc_bit(
                 crc_bit(crc_bit(crc_bit(crc_bit({Xor16(crc, byte)})))))))) : TRUE

\* the outer `for (size_t i = 0; i < length; ++i)` loop over data[first..last]:
\* the bytes are folded in order, the first half of the range and then the
\* second, which keeps the evaluation of a 265-byte frame shallow
RECURSIVE crc_loop(_, _, _, _)
crc_loop(data, first, last, crc) ==
    IF first > last THEN crc
    ELSE IF first = last THEN crc_byte(crc, data[first])
    ELSE LET mid == (first + last) \div 2
         IN  CHOOSE r \in { crc_loop(data, mid + 1, last, next) :
                            next \in {crc_loop(data, first, mid, crc)} } : TRUE

\* uint16_t calculate_crc(const uint8_t *data, size_t length), data = the
\* `length` bytes it is given
calculate_crc(data) == crc_loop(data, 1, Len(data), 65535)

\* append_uint16 with the low byte first
append_uint16_little_endian(frame, value) ==
    frame \o <<value % 256, (value \div 256) % 256>>

\* append_uint16: bytes (value >> 8) & 0xFF, value & 0xFF
append_uint16(frame, value) == frame \o <<(value \div 256) % 256, value % 256>>

\* `for (uint16_t value : request.values) append_uint16(frame, value)`, from
\* values[i] on: byte k of what is appended is a byte of value (k + 1) / 2
append_values(frame, values, i) ==
    frame \o [k \in 1..(2 * (Len(values) - i + 1)) |->
                 append_uint16(<<>>, values[i + ((k - 1) \div 2)])[2 - (k % 2)]]

Supported(fc) ==
    fc \in {READ_HOLDING_REGISTERS, READ_INPUT_REGISTERS,
            WRITE_SINGLE_REGISTER, WRITE_MULTIPLE_REGISTERS}

\* the bytes up to the CRC; only used for a Supported function code (any
\* other throws "Unsupported function code")
request_pdu(request) ==
    LET head == <<request.slave_address, request.function_code>>
    IN  CASE request.function_code \in {READ_HOLDING_REGISTERS, READ_INPUT_REGISTERS} ->
               append_uint16(append_uint16(head, request.start_address),
                             request.register_count)
          [] request.function_code = WRITE_SINGLE_REGISTER ->
               append_uint16(append_uint16(head, request.start_address),
                             request.values[1])
          [] request.function_code = WRITE_MULTIPLE_REGISTERS ->
               append_values(
                   append_uint16(append_uint16(head, request.start_address),
                                 request.register_count)
                       \o <<(Len(request.values) * 2) % 256>>,
                   request.values, 1)

\* the CRC appended high byte first
AppendCrc_high_first(frame) ==
    LET crc == calculate_crc(frame)
    IN  frame \o <<(crc \div 256) % 256, crc % 256>>

\* frame.push_back(crc & 0xFF); frame.push_back((crc >> 8) & 0xFF)
AppendCrc(frame) ==
    LET crc == calculate_crc(frame)
    IN  frame \o <<crc % 256, (crc \div 256) % 256>>

build_request_frame(request) == AppendCrc(request_pdu(request))

\* ModbusRtuMaster::Impl::verify_crc throws "CRC check failed" on a mismatch;
\* TRUE when it returns normally.  data[length-1], data[length-2] are the
\* sequence's elements length and length-1.
rtu_verify_crc(data, length) ==
    LET received_crc == ((data[length] * 256) + data[length - 1]) % 65536
        calculated_crc == calculate_crc(SubSeq(data, 1, length - 2))
    IN  received_crc = calculated_crc

\* verify_crc reading the received CRC high byte first
verify_crc_high_first(data, length) ==
    IF length < 2 THEN FALSE
    ELSE LET received_crc == ((data[length - 1] * 256) + data[length]) % 65536
         IN  calculate_crc(SubSeq(data, 1, length - 2)) = received_crc

\* bool SsModbusMaster::verify_crc(const uint8_t *data, size_t length)
verify_crc(data, length) ==
    IF length < 2 THEN FALSE
    ELSE LET received_crc == ((data[length] * 256) + data[length - 1]) % 65536
         IN  calculate_crc(SubSeq(data, 1, length - 2)) = received_crc

\* size_t SsModbusMaster::get_actual_message_length(const uint8_t *data)
get_actual_message_length(data) ==
    CASE data[2] = 3 -> 3 + data[3] + 2
      [] data[2] \in {6, 16} -> 8
      [] OTHER -> 0

----------------------------------------------------------------------------
(* MasterContract helpers (SsModbusMaster) *)

NoRequest == ModbusRequest(0, 0, 0, 0, <<>>)
NoResponse == ModbusResponse(0, 0, <<>>, 0)

\* what a call ends with: a Response, decoded values, or a std::runtime_error
Returned(r) == [kind |-> "response", what |-> "", response |-> r, values |-> <<>>]
Thrown(msg) == [kind |-> "error", what |-> msg, response |-> NoResponse, values |-> <<>>]
Values(vs) == [kind |-> "values", what |-> "", response |-> NoResponse, values |-> vs]
Void == [kind |-> "void", what |-> "", response |-> NoResponse, values |-> <<>>]
Pending == [kind |-> "pending", what |-> "", response |-> NoResponse, values |-> <<>>]

\* the calls the model makes: the operation, the request it hands to
\* send_request and the register count it checks the answer against
ApiCall(api, request) == [api |-> api, request |-> request]

read_holding_registers_request(slave_address, start_address, register_count) ==
    ModbusRequest(slave_address, READ_HOLDING_REGISTERS, start_address,
                  register_count, <<>>)

\* register_count is left unassigned here and is not read for this function code
write_single_register_request(slave_address, address, value) ==
    ModbusRequest(slave_address, WRITE_SINGLE_REGISTER, address, 0, <<value>>)

write_multiple_registers_request(slave_address, start_address, values) ==
    ModbusRequest(slave_address, WRITE_MULTIPLE_REGISTERS, start_address,
                  Len(values) % 65536, values)

\* the decode loop with the two bytes of a register the other way round
decode_registers_swapped(data, i, result) ==
    result \o [k \in 1..((Len(data) - i + 2) \div 2) |->
                 ((data[i + (2 * (k - 1)) + 1] * 256) + data[i + (2 * (k - 1))]) % 65536]

\* for (i = 0; i < data.size(); i += 2)
\*     result.push_back((data[i] << 8) | data[i + 1]);
\* from index i on (1 for the code's 0): turn k of the loop, k = 1, 2, ...,
\* reads data[i + 2(k-1)] and the byte after it
decode_registers(data, i, result) ==
    result \o [k \in 1..((Len(data) - i + 2) \div 2) |->
                 ((data[i + (2 * (k - 1))] * 256) + data[i + (2 * (k - 1)) + 1]) % 65536]

\* read_holding_registers without its test of the data size (decoding the
\* whole registers there are)
read_holding_registers_return_unchecked(request, response) ==
    IF response.error # NO_ERROR THEN Thrown("Modbus error")
    ELSE Values(decode_registers(SubSeq(response.data, 1,
                                        2 * (Len(response.data) \div 2)), 1, <<>>))

\* the part of read_holding_registers after send_request returned `response`
read_holding_registers_return(request, response) ==
    IF response.error # NO_ERROR THEN Thrown("Modbus error")
    ELSE IF Len(response.data) # request.register_count * 2
         THEN Thrown("Invalid response data size")
         ELSE Values(decode_registers(response.data, 1, <<>>))

\* the part of write_single_register / write_multiple_registers after
\* send_request returned `response`
write_register_return(response) ==
    IF response.error # NO_ERROR THEN Thrown("Modbus error") ELSE Void

\* what the operation `api` makes of send_request's outcome (an exception of
\* send_request passes through every helper unchanged)
api_return(api, request, outcome) ==
    IF outcome.kind = "error" THEN outcome
    ELSE CASE api = "send_request" -> outcome
           [] api = "read_holding_registers" ->
                read_holding_registers_return(request, outcome.response)
           [] api \in {"write_single_register", "write_multiple_registers"} ->
                write_register_return(outcome.response)

----------------------------------------------------------------------------
(* The calls and the device of the model *)

Timeouts == {5, 10}

\* the requests handed to a transport's send_request
Requests ==
    { read_holding_registers_request(1, 0, 1),
      ModbusRequest(1, READ_COILS, 0, 1, <<>>) }

\* a frame whose trailing two bytes are not the CRC of the bytes before them
CorruptCrc(frame) ==
    LET n == Len(frame)
    IN  [i \in 1..n |-> IF i = n - 1 THEN (frame[i] + 1) % 256 ELSE frame[i]]

ReadResponseFrame == AppendCrc(<<1, 3, 2, 0, 5>>)
ExceptionFrame == AppendCrc(<<1, 131, 2>>)
WriteAckFrame == AppendCrc(<<1, 6, 0, 1, 0, 3>>)
\* a read response whose trailer is the CRC of the bytes after the function code
ShiftedCrcFrame == <<1, 4>> \o AppendCrc(<<2, 0, 5>>)
UnsupportedFrame == AppendCrc(<<1, 1, 1, 0>>)

\* what the slave may put on the line in answer to a request
DeviceFrames ==
    { ReadResponseFrame, ExceptionFrame, CorruptCrc(ExceptionFrame),
      WriteAckFrame, ShiftedCrcFrame, UnsupportedFrame }

\* the codec has been given nothing
NoCodec == [stage |-> "idle", request |-> NoRequest, payload |-> <<>>,
            frame |-> <<>>, flips |-> 0, result |-> Pending]

----------------------------------------------------------------------------
(* Caller threads *)

InitLoc ==
    [ api |-> "send_request",  \* the MasterContract operation the caller called
      request |-> NoRequest, timeout |-> 0,
      \* query: when the rate-limit sleep is over, start_time, the deadline of
      \* cv_.wait_for, the value total_queries took at its increment
      wake |-> 0, start_time |-> 0, deadline |-> 0, n |-> 0,
      retired |-> {},          \* the queries that had timed out when this one began
      \* read_with_timeout: steady_clock::now() - start, total_read, length,
      \* and where `buffer` points
      elapsed |-> 0, total_read |-> 0, length |-> 0, offset |-> 0,
      \* receive_response: std::array<uint8_t, 256> buffer (the part written), response
      buffer |-> <<>>, slave_address |-> 0, function_code |-> 0,
      result |-> Pending,      \* what the call ended with
      outcome |-> Pending,     \* what send_request ended with, under a helper
      \* bookkeeping of the call, read by the properties only
      received |-> <<>>,       \* the bytes the receive phase read, in order
      waited |-> 0,            \* the time since the receive phase began
      arrived |-> 0,           \* `waited` when the last byte read came in
      answers |-> 0,           \* the query whose request the response read answers
      quiet |-> FALSE,         \* the response read came in while no call was in progress
      stale |-> 0,             \* bytes buffered on the channel when the call began
      inflight |-> 0,          \* bytes on the line when the request was written
      \* control_batch: its argument, and the elements control_async was called for
      batch |-> <<>>, attempted |-> 0,
      send_failed |-> FALSE ]  \* control_async: SendGeneralMessage(...) != 0

Min(a, b) == IF a < b THEN a ELSE b
Max(a, b) == IF a > b THEN a ELSE b

BufferSize == 256    \* std::array<uint8_t, 256> buffer

\* buffer[offset .. offset + Len(bytes) - 1] = bytes (0-based offset)
Store(buffer, offset, bytes) ==
    [i \in 1..Max(Len(buffer), offset + Len(bytes)) |->
        IF i > offset /\ i <= offset + Len(bytes) THEN bytes[i - offset]
        ELSE buffer[i]]

\* no call ended in this step
NoCall == [thread |-> NoThread, call |-> InitLoc]

\* thread t's call, with locals l, ended in this step with `outcome` (a
\* return or a throw): the caller is free for its next call
Ends(t, l, outcome) ==
    /\ pc' = [pc EXCEPT ![t] = "idle"]
    /\ loc' = [loc EXCEPT ![t] = InitLoc]
    /\ ended' = [thread |-> t, call |-> [l EXCEPT !.result = outcome]]

\* a caller thread calls send_request (its arguments are bound when the body
\* of send_request starts to run)
Call(t) ==
    /\ pc[t] = "idle"
    /\ ncalls < MaxCalls
    /\ pc' = [pc EXCEPT ![t] = "called"]
    /\ ncalls' = ncalls + 1
    /\ ended' = NoCall
    /\ UNCHANGED <<transport, codec, loc, now, device, rtuVars, udpVars>>

----------------------------------------------------------------------------
(* RtuTransport: ModbusRtuMaster::Impl *)

PollSleep == 10      \* std::this_thread::sleep_for(10ms)

\* send_request without its lock_guard
lock_guard_absent(t) == TRUE

\* std::lock_guard<std::mutex> lock(mutex_) can be constructed
lock_guard(t) == rtu_mutex_ = NoThread

\* the expiry test with its comparison the wrong way round
timed_out_inverted(elapsed, timeout) == timeout > elapsed

\* read_with_timeout's expiry test, made when a read returned nothing:
\* steady_clock::now() - start > timeout
timed_out(elapsed, timeout) == elapsed > timeout

Receiving == {"header", "exception", "byte_count", "data", "ack"}

\* a new call of read_with_timeout(buffer.data() + offset, length, timeout):
\* start = steady_clock::now(), total_read = 0
read_with_timeout(l, offset, length) ==
    [l EXCEPT !.elapsed = 0, !.total_read = 0, !.length = length, !.offset = offset]

\* the serial transport runs, on a line with a slave or on a noisy line
Serial == transport \in {"rtu", "rtu_noise", "rtu_long"}

\* the bursts of the line as one sequence of bytes, in order
RECURSIVE Flatten(_)
Flatten(bursts) == IF bursts = <<>> THEN <<>> ELSE Head(bursts) \o Flatten(Tail(bursts))

\* clear_input_buffer leaving its loop without a read
drained_at_once(buffered) == TRUE

\* `while (serialPort_.read(buffer, sizeof(buffer)) > 0)` is over: the read
\* found nothing buffered
drained(buffered) == buffered = <<>>

\* send_request up to the call of clear_input_buffer: lock, build the frame
RtuSendRequest(t) ==
    /\ Serial
    /\ pc[t] = "called"
    /\ lock_guard(t)
    /\ UNCHANGED <<transport, codec, now, ncalls, wire, device, udpVars, rxbuf, awaiting>>
    /\ \E request \in Requests, timeout \in Timeouts :
         LET l == [InitLoc EXCEPT !.request = request, !.timeout = timeout,
                                  !.stale = Len(rxbuf)]
         IN  IF ~Supported(request.function_code)
             THEN \* build_request_frame throws before anything touches the channel
                  /\ Ends(t, l, Thrown("Unsupported function code"))
                  /\ rtu_mutex_' = NoThread
             ELSE /\ rtu_mutex_' = t
                  /\ pc' = [pc EXCEPT ![t] = "drain"]
                  /\ loc' = [loc EXCEPT ![t] = l]
                  /\ ended' = NoCall

\* one turn of clear_input_buffer's loop: a read of up to 256 bytes, thrown
\* away; after the read that finds nothing, the write of the request frame
\* and the first read_with_timeout of receive_response
RtuDrain(t) ==
    /\ Serial
    /\ pc[t] = "drain"
    /\ UNCHANGED <<transport, codec, now, ncalls, wire, device, udpVars>>
    /\ IF ~drained(rxbuf)
       THEN /\ rxbuf' = SubSeq(rxbuf, 257, Len(rxbuf))
            /\ ended' = NoCall
            /\ UNCHANGED <<pc, loc, rtu_mutex_, awaiting>>
       ELSE /\ UNCHANGED rxbuf
            /\ \E written \in BOOLEAN :            \* serialPort_.write wrote all of it
                 LET l == [loc[t] EXCEPT !.inflight = Len(Flatten(wire))]
                 IN  IF written
                     THEN /\ awaiting' = TRUE
                          /\ pc' = [pc EXCEPT ![t] = "header"]
                          /\ loc' = [loc EXCEPT ![t] = read_with_timeout(l, 0, 2)]
                          /\ ended' = NoCall
                          /\ UNCHANGED rtu_mutex_
                     ELSE /\ Ends(t, l, Thrown("Failed to send Modbus request"))
                          /\ rtu_mutex_' = NoThread
                          /\ UNCHANGED awaiting

\* the message receive_response throws when read_with_timeout returns false
Incomplete(phase) ==
    CASE phase = "header" -> "Response timeout"
      [] phase = "exception" -> "Incomplete exception response"
      [] phase = "byte_count" -> "Incomplete read response"
      [] phase = "data" -> "Incomplete read data"
      [] phase = "ack" -> "Incomplete write response"

\* receive_response goes on to its next read
RtuContinue(t, phase, l) ==
    /\ pc' = [pc EXCEPT ![t] = phase]
    /\ loc' = [loc EXCEPT ![t] = l]
    /\ ended' = NoCall
    /\ UNCHANGED rtu_mutex_

\* send_request ends (return or throw): the lock_guard is destroyed
RtuEnd(t, l, outcome) ==
    /\ Ends(t, l, outcome)
    /\ rtu_mutex_' = NoThread

\* receive_response, from the point where the read of phase pc[t] returned
\* true, up to its next read or its end; l.buffer holds what was read
receive_response(t, l) ==
    CASE pc[t] = "header" ->
           LET function_code == l.buffer[2]
               l1 == [l EXCEPT !.slave_address = l.buffer[1],
                               !.function_code = function_code]
           IN  IF IsException(function_code)
               THEN RtuContinue(t, "exception", read_with_timeout(l1, 0, 1))
               ELSE IF function_code \in {READ_HOLDING_REGISTERS, READ_INPUT_REGISTERS}
               THEN RtuContinue(t, "byte_count", read_with_timeout(l1, 0, 1))
               ELSE IF function_code \in {WRITE_SINGLE_REGISTER, WRITE_MULTIPLE_REGISTERS}
               THEN RtuContinue(t, "ack", read_with_timeout(l1, 0, 6))
               ELSE RtuEnd(t, l1, Thrown("Unsupported function code in response"))
      [] pc[t] = "exception" ->
           \* response.error = buffer[0]; return response (data empty)
           RtuEnd(t, l, Returned(ModbusResponse(l.slave_address, l.function_code,
                                                <<>>, l.buffer[1])))
      [] pc[t] = "byte_count" ->
           \* byte_count = buffer[0]; read byte_count + 2 bytes to buffer + 1
           RtuContinue(t, "data", read_with_timeout(l, 1, l.buffer[1] + 2))
      [] pc[t] = "data" ->
           LET byte_count == l.buffer[1]
               data == SubSeq(l.buffer, 2, 1 + byte_count)
           IN  IF rtu_verify_crc(l.buffer, byte_count + 3)
               THEN \E error \in Indeterminate :      \* response.error is never assigned
                      RtuEnd(t, l, Returned(ModbusResponse(l.slave_address,
                                                           l.function_code, data, error)))
               ELSE RtuEnd(t, l, Thrown("CRC check failed"))
      [] pc[t] = "ack" ->
           IF rtu_verify_crc(l.buffer, 6)
           THEN \E error \in Indeterminate :          \* response.error is never assigned
                  RtuEnd(t, l, Returned(ModbusResponse(l.slave_address,
                                                       l.function_code, <<>>, error)))
           ELSE RtuEnd(t, l, Thrown("CRC check failed"))

\* the clock advances by d: every running read_with_timeout sees it
Sleep(d) ==
    [u \in Threads |->
        IF pc[u] \in Receiving
        THEN [loc[u] EXCEPT !.elapsed = @ + d, !.waited = @ + d]
        ELSE loc[u]]

\* what a read that stores n more bytes can do to the process: stores inside
\* the buffer leave it running; a store past the buffer's end is undefined,
\* and the process either runs on with the bytes stored or is killed
Survives(l, n) ==
    IF l.offset + l.total_read + n > BufferSize THEN BOOLEAN ELSE {TRUE}

\* one turn of read_with_timeout's loop: a non-blocking read; with bytes,
\* store them (and go on in receive_response once `length` are there); with
\* none, give up if the time is over, else sleep 10 ms
RtuRead(t) ==
    /\ Serial
    /\ pc[t] \in Receiving
    /\ UNCHANGED <<transport, codec, now, ncalls, wire, awaiting, device, udpVars>>
    /\ LET l == loc[t]
           n == Min(Len(rxbuf), l.length - l.total_read)
       IN  IF n > 0
           THEN LET l1 == [l EXCEPT !.buffer = Store(@, l.offset + l.total_read,
                                                     SubSeq(rxbuf, 1, n)),
                                    !.total_read = @ + n,
                                    !.received = @ \o SubSeq(rxbuf, 1, n),
                                    !.arrived = l.waited]
                IN  /\ rxbuf' = SubSeq(rxbuf, n + 1, Len(rxbuf))
                    /\ \E survives \in Survives(l, n) :
                         IF ~survives
                         THEN RtuContinue(t, "killed", l1)
                         ELSE IF l1.total_read < l1.length
                         THEN RtuContinue(t, pc[t], l1)
                         ELSE receive_response(t, l1)
           ELSE IF timed_out(l.elapsed, l.timeout)
                THEN /\ rxbuf' = rxbuf
                     /\ RtuEnd(t, l, Thrown(Incomplete(pc[t])))
                ELSE /\ loc' = Sleep(PollSleep)
                     /\ ended' = NoCall
                     /\ UNCHANGED <<pc, rtu_mutex_, rxbuf>>

\* a frame as the bursts it is sent in: all at once (cut = 0), or the first
\* `cut` bytes and then the rest
Bursts(frame, cut) ==
    IF cut = 0 THEN <<frame>>
    ELSE <<SubSeq(frame, 1, cut), SubSeq(frame, cut + 1, Len(frame))>>

\* the slaves of the model: each answers every request with the same frame,
\* sent in the same bursts (or, like any of them may, never answers)
Slaves == { [frame |-> f, cut |-> cut] : f \in DeviceFrames, cut \in 0..7 }

\* the slave answers the request it was sent
DeviceRespond ==
    /\ Serial
    /\ awaiting
    /\ wire' = wire \o Bursts(device.frame, device.cut)
    /\ awaiting' = FALSE
    /\ ended' = NoCall
    /\ UNCHANGED <<transport, codec, pc, loc, now, ncalls, rtu_mutex_, rxbuf, device, udpVars>>

\* the next burst of the line reaches the channel's input buffer
DeviceDeliver ==
    /\ Serial
    /\ wire # <<>>
    /\ rxbuf' = rxbuf \o Head(wire)
    /\ wire' = Tail(wire)
    /\ ended' = NoCall
    /\ UNCHANGED <<transport, codec, pc, loc, now, ncalls, rtu_mutex_, awaiting, device, udpVars>>

\* read responses that announce n data bytes and carry them
LongReadFrame(n) == AppendCrc(<<1, 3, n>> \o [i \in 1..n |-> (7 * i) % 256])

\* the byte counts of the long responses: the two largest a byte can
\* announce, the largest below them, and none
LongByteCounts == {0, 253, 254, 255}

\* what line noise puts into the channel's input buffer
NoiseBytes == {255}

\* line noise: a byte nobody sent reaches the empty input buffer of the channel
LineNoise ==
    /\ transport = "rtu_noise"
    /\ rxbuf = <<>>
    /\ \E byte \in NoiseBytes : rxbuf' = <<byte>>
    /\ ended' = NoCall
    /\ UNCHANGED <<transport, codec, pc, loc, now, ncalls, rtu_mutex_, wire, awaiting,
                   device, udpVars>>

----------------------------------------------------------------------------
(* DatagramTransport: ModbusUdpMaster::Impl *)

\* the datagram transport runs: the callers of send_request alone, or beside
\* callers of the control operations or of set_polling_interval
Datagram == transport \in {"udp", "udp_control", "udp_polling", "udp_traffic"}

MaxNow == 300                 \* the clock stops here
ClockSteps == {100}            \* what one step of the clock adds

UdpTimeouts == {100, 200}

\* the requests handed to query
UdpRequests ==
    { read_holding_registers_request(1, 0, 1),
      write_single_register_request(1, 1, 3),
      ModbusRequest(1, READ_COILS, 0, 1, <<>>) }

\* what handleResponse ends with when it returns -1
Dropped == [kind |-> "dropped", what |-> "", response |-> NoResponse, values |-> <<>>]

\* verify_crc left out of handleResponse
udp_verify_crc_absent(data, length) == TRUE

\* bool verify_crc(const uint8_t *data, size_t length)
udp_verify_crc(data, length) ==
    IF length < 2 THEN FALSE
    ELSE LET received_crc == ((data[length] * 256) + data[length - 1]) % 65536
             calculated_crc == calculate_crc(SubSeq(data, 1, length - 2))
         IN  received_crc = calculated_crc

\* handleResponse up to its lock_guard: the Response it is about to stage, or
\* Dropped.  `indeterminate` is what response.error holds where nothing
\* assigns it.  rawData[0], rawData[1], rawData[2] are the elements 1, 2, 3.
handleResponse(rawData, size, indeterminate) ==
    IF size < 4 THEN Dropped
    ELSE LET slave_address == rawData[1]
             function_code == rawData[2]
         IN  IF IsException(function_code)
             THEN IF size # 5 THEN Dropped
                  ELSE IF ~udp_verify_crc(rawData, size) THEN Dropped
                  ELSE Returned(ModbusResponse(slave_address, function_code,
                                               <<>>, rawData[3]))
             ELSE IF function_code \in {READ_HOLDING_REGISTERS, READ_INPUT_REGISTERS}
             THEN IF size < 5 \/ rawData[3] = 0 \/ size # 5 + rawData[3] THEN Dropped
                  ELSE IF ~udp_verify_crc(rawData, size) THEN Dropped
                  \* response.data.assign(rawData + 2, rawData + size - 2)
                  ELSE Returned(ModbusResponse(slave_address, function_code,
                                               SubSeq(rawData, 3, size - 2),
                                               indeterminate))
             ELSE IF function_code \in {WRITE_SINGLE_REGISTER, WRITE_MULTIPLE_REGISTERS}
             THEN IF size # 8 THEN Dropped
                  ELSE IF ~udp_verify_crc(rawData, size) THEN Dropped
                  ELSE Returned(ModbusResponse(slave_address, function_code,
                                               <<>>, indeterminate))
             ELSE Dropped

\* `size = *static_cast<size_t *>(msg.get())` where rawData is the same
\* pointer: the word that starts with the bytes rawData[0], rawData[1], ...
\* (least significant first).  Every value of 65536 or more stands for
\* itself as 65536: handleResponse compares size with numbers up to 260
\* only.  Bytes past the end of the payload are indeterminate.
size_word(rawData) ==
    LET low == rawData[1] + (256 * rawData[2])
    IN  IF \E i \in 3..Min(Len(rawData), 8) : rawData[i] # 0 THEN {256 * 256}
        ELSE IF Len(rawData) < 8 THEN {low, 256 * 256} ELSE {low}

\* the size handleResponse finds in a message whose payload is rawData: the
\* payload's length where the bus keeps it in a word of its own beside the
\* payload, else the word the payload starts with
MsgSizes(rawData) == {Len(rawData)} \cup size_word(rawData)

\* the slave's holding register at `address`
Register(address) == 5 + (2 * address)

RECURSIVE RegisterBytes(_, _)
RegisterBytes(address, count) ==
    IF count = 0 THEN <<>>
    ELSE append_uint16(<<>>, Register(address)) \o RegisterBytes(address + 1, count - 1)

\* the frame that answers `request` (a Supported one)
UdpAnswer(request) ==
    LET head == <<request.slave_address, request.function_code>>
    IN  IF request.function_code \in {READ_HOLDING_REGISTERS, READ_INPUT_REGISTERS}
        THEN AppendCrc(head \o <<(2 * request.register_count) % 256>>
                            \o RegisterBytes(request.start_address,
                                             request.register_count))
        ELSE IF request.function_code = WRITE_SINGLE_REGISTER
        THEN build_request_frame(request)
        ELSE AppendCrc(append_uint16(append_uint16(head, request.start_address),
                                     request.register_count))

\* the slaves of the model, by what they send back
UdpSlaves == {"answers", "exception", "corrupts", "corrupts_exception", "truncates"}

UdpReply(slave, request) ==
    LET exception == AppendCrc(<<request.slave_address,
                                 request.function_code + 128, 2>>)
    IN  CASE slave = "answers" -> UdpAnswer(request)
          [] slave = "exception" -> exception
          [] slave = "corrupts" -> CorruptCrc(UdpAnswer(request))
          [] slave = "corrupts_exception" -> CorruptCrc(exception)
          [] slave = "truncates" -> SubSeq(UdpAnswer(request), 1, 3)

\* what handleResponse pushes for the datagram msg: the Response, and with it
\* the payload it was made from, the query it answers and whether the bus
\* handed it over while no caller was in any call (read by the properties)
Staged(response, msg) ==
    [response |-> response, rawData |-> msg.rawData, answers |-> msg.answers,
     quiet |-> \A t \in Threads : pc[t] = "idle"]

NoStaged == [response |-> NoResponse, rawData |-> <<>>, answers |-> 0, quiet |-> FALSE]

\* the bus thread is in no callback; the handler's owner_ points to a live Impl
NoCallback ==
    [stage |-> "idle", entry |-> NoStaged, owner |-> "alive", dangling |-> FALSE,
     handled |-> <<>>,      \* the payload of the last call of handleMsg
     served |-> {}]         \* the queries whose response was staged in time

\* the queries in `served`, and the query whose response is staged now, if
\* its call waits and its deadline is still to come
Served(served, answers) ==
    served \cup { loc[t].n : t \in { u \in Threads : /\ pc[u] = "waiting"
                                                     /\ loc[u].n = answers
                                                     /\ now < loc[u].deadline } }

\* the rate-limit test left out: the query never sleeps
rate_limit_absent(t_now, last, interval) == t_now

\* `if (now - lastPollTime_ < minPollingInterval_) sleep_for(minPollingInterval_
\* - (now - lastPollTime_))`: when the sleep is over, at the earliest
rate_limit(t_now, last, interval) ==
    IF t_now - last < interval THEN t_now + (interval - (t_now - last)) ELSE t_now

\* query: std::unique_lock<std::mutex> lock(mutex_), and the rate-limit test
\* that decides how long it sleeps, the lock held (the arguments of the call
\* are bound where the body first reads them, in QuerySend)
QueryLock(t) ==
    /\ Datagram
    /\ pc[t] = "called"
    /\ udp_mutex_ = NoThread
    /\ udp_mutex_' = t
    /\ loc' = [loc EXCEPT ![t] =
                  [InitLoc EXCEPT
                      !.retired = expired,
                      !.wake = rate_limit(now, lastPollTime_, minPollingInterval_)]]
    /\ pc' = [pc EXCEPT ![t] = "locked"]
    /\ ended' = NoCall
    /\ UNCHANGED <<transport, codec, callback, now, ncalls, device, rtuVars, responseQueue_,
                   status_, minPollingInterval_, lastPollTime_, bus, expired,
                   lastQuerySent>>

\* query ends (return or throw): the unique_lock is destroyed
UdpEnd(t, l, outcome) ==
    /\ Ends(t, l, outcome)
    /\ udp_mutex_' = NoThread

\* query from the end of its sleep to cv_.wait_for: stamp the poll time,
\* count the query, build the frame, empty the queue, send
QuerySend(t) ==
    /\ Datagram
    /\ pc[t] = "locked"
    /\ now >= loc[t].wake
    /\ lastPollTime_' = now
    /\ UNCHANGED <<transport, codec, callback, now, ncalls, device, rtuVars, minPollingInterval_,
                   expired>>
    /\ \E request \in UdpRequests, timeout \in UdpTimeouts :
       LET n == status_.total_queries + 1
           counted == [status_ EXCEPT !.total_queries = n]
           l == [loc[t] EXCEPT !.request = request, !.timeout = timeout,
                               !.start_time = now, !.n = n,
                               !.deadline = now + timeout]
       IN  IF ~Supported(l.request.function_code)
           THEN /\ status_' = counted
                /\ UdpEnd(t, l, Thrown("Unsupported function code"))
                /\ UNCHANGED <<responseQueue_, bus, lastQuerySent>>
           ELSE /\ responseQueue_' = <<>>
                /\ lastQuerySent' = now
                /\ \E sent \in BOOLEAN :       \* SendGeneralMessage(...) == 0
                     IF sent
                     THEN /\ status_' = counted
                          /\ bus' = bus \cup {[rawData |-> UdpReply(device, l.request),
                                               answers |-> n]}
                          \* cv_.wait_for releases the lock
                          /\ udp_mutex_' = NoThread
                          /\ pc' = [pc EXCEPT ![t] = "waiting"]
                          /\ loc' = [loc EXCEPT ![t] = l]
                          /\ ended' = NoCall
                     ELSE /\ status_' = [counted EXCEPT !.failed_queries = @ + 1]
                          /\ UdpEnd(t, l, Thrown("Failed to send Modbus request"))
                          /\ UNCHANGED bus

\* cv_.wait_for(lock, timeout, pred) returns: the waiter holds the lock again
\* and finds a staged response (after a notification or a spurious wake-up,
\* or at the deadline), or the deadline has passed and there is none
QueryWake(t) ==
    /\ Datagram
    /\ pc[t] = "waiting"
    /\ udp_mutex_ = NoThread
    /\ responseQueue_ # <<>> \/ now >= loc[t].deadline
    /\ UNCHANGED <<transport, codec, callback, now, ncalls, device, rtuVars, minPollingInterval_,
                   lastPollTime_, bus, lastQuerySent>>
    /\ IF responseQueue_ # <<>>
       THEN LET staged == Head(responseQueue_)
                duration == now - loc[t].start_time
                total_queries == status_.total_queries
                l == [loc[t] EXCEPT !.received = staged.rawData,
                                    !.answers = staged.answers,
                                    !.quiet = staged.quiet,
                                    !.waited = duration]
            IN  /\ responseQueue_' = Tail(responseQueue_)
                /\ status_' = [status_ EXCEPT !.avg_response_time =
                                  ((@ * (total_queries - 1)) + duration)
                                      \div total_queries]
                /\ UdpEnd(t, l, Returned(staged.response))
                /\ UNCHANGED expired
       ELSE /\ status_' = [status_ EXCEPT !.failed_queries = @ + 1]
            /\ expired' = expired \cup {loc[t].n}
            /\ UdpEnd(t, [loc[t] EXCEPT !.waited = now - loc[t].start_time],
                      Thrown("Response timeout"))
            /\ UNCHANGED responseQueue_

\* the bus hands a datagram to ModbusUdpResponseHandler::handleMsg, which
\* runs handleResponse: parse, then stage under the lock and notify
UdpDeliver ==
    /\ Datagram
    /\ \E msg \in bus : \E size \in MsgSizes(msg.rawData), indeterminate \in Indeterminate :
         LET parsed == handleResponse(msg.rawData, size, indeterminate)
         IN  /\ bus' = bus \ {msg}
             /\ IF parsed = Dropped
                THEN UNCHANGED <<responseQueue_, callback>>
                ELSE /\ callback' = [callback EXCEPT
                                       !.served = Served(@, msg.answers)]
                     /\ udp_mutex_ = NoThread      \* std::lock_guard lock(mutex_)
                     /\ responseQueue_' =
                          Append(IF Len(responseQueue_) >= 10
                                 THEN Tail(responseQueue_) ELSE responseQueue_,
                                 Staged(parsed.response, msg))
    /\ ended' = NoCall
    /\ UNCHANGED <<transport, codec, pc, loc, now, ncalls, device, rtuVars, udp_mutex_,
                   status_, minPollingInterval_, lastPollTime_, expired,
                   lastQuerySent>>

\* the requests handed to control_async
ControlRequests ==
    { write_single_register_request(1, 1, 3),
      ModbusRequest(1, READ_COILS, 0, 1, <<>>) }

\* the lists handed to control_batch
ControlBatches ==
    { <<write_single_register_request(1, 1, 3), write_single_register_request(1, 1, 3)>>,
      <<ModbusRequest(1, READ_COILS, 0, 1, <<>>), write_single_register_request(1, 1, 3)>> }

\* the intervals handed to set_polling_interval
PollingIntervals == {200}

\* control_async with a failed send counted among the queries
control_async_counts_query(status, sent) ==
    [status EXCEPT !.total_controls = @ + 1,
                   !.failed_queries = IF sent THEN @ ELSE @ + 1]

\* control_async once the frame is built: status_.total_controls++, and
\* status_.failed_controls++ when SendGeneralMessage(...) != 0
control_async(status, sent) ==
    [status EXCEPT !.total_controls = @ + 1,
                   !.failed_controls = IF sent THEN @ ELSE @ + 1]

\* the bus after control_async handed it the frame of `request`: the slave
\* answers a frame the bus took
control_sent(request, sent) ==
    IF sent THEN bus \cup {[rawData |-> UdpReply(device, request), answers |-> 0]}
    ELSE bus

\* control_async(request), called by a caller thread: it takes no lock
ControlAsync(t) ==
    /\ transport = "udp_control"
    /\ pc[t] = "called"
    /\ \E request \in ControlRequests :
         LET l == [InitLoc EXCEPT !.api = "control_async", !.request = request]
         IN  IF ~Supported(request.function_code)
             THEN /\ Ends(t, l, Thrown("Unsupported function code"))
                  /\ UNCHANGED <<status_, bus>>
             ELSE \E sent \in BOOLEAN :
                    /\ status_' = control_async(status_, sent)
                    /\ bus' = control_sent(request, sent)
                    /\ Ends(t, [l EXCEPT !.send_failed = ~sent], Void)
    /\ UNCHANGED <<transport, codec, callback, now, ncalls, device, rtuVars, udp_mutex_,
                   responseQueue_, minPollingInterval_, lastPollTime_, expired,
                   lastQuerySent>>

\* control_batch(requests) is entered
ControlBatch(t) ==
    /\ transport = "udp_control"
    /\ pc[t] = "called"
    /\ \E requests \in ControlBatches :
         loc' = [loc EXCEPT ![t] = [InitLoc EXCEPT !.api = "control_batch",
                                                   !.batch = requests]]
    /\ pc' = [pc EXCEPT ![t] = "batch"]
    /\ ended' = NoCall
    /\ UNCHANGED <<transport, codec, now, ncalls, device, rtuVars, udpVars>>

\* one turn of `for (const auto &request : requests) control_async(request)`,
\* or the end of the loop
ControlBatchStep(t) ==
    /\ transport = "udp_control"
    /\ pc[t] = "batch"
    /\ IF loc[t].attempted = Len(loc[t].batch)
       THEN /\ Ends(t, loc[t], Void)
            /\ UNCHANGED <<status_, bus>>
       ELSE LET request == loc[t].batch[loc[t].attempted + 1]
                l == [loc[t] EXCEPT !.attempted = @ + 1]
            IN  IF ~Supported(request.function_code)
                \* build_request_frame throws out of control_async and of the loop
                THEN /\ Ends(t, l, Thrown("Unsupported function code"))
                     /\ UNCHANGED <<status_, bus>>
                ELSE \E sent \in BOOLEAN :
                       /\ status_' = control_async(status_, sent)
                       /\ bus' = control_sent(request, sent)
                       /\ loc' = [loc EXCEPT ![t] = l]
                       /\ ended' = NoCall
                       /\ UNCHANGED pc
    /\ UNCHANGED <<transport, codec, callback, now, ncalls, device, rtuVars, udp_mutex_,
                   responseQueue_, minPollingInterval_, lastPollTime_, expired,
                   lastQuerySent>>

\* set_polling_interval(interval): std::lock_guard lock(mutex_), then the
\* store; a caller thread that is in no other call makes the call, with an
\* interval other than the one in force
SetPollingInterval(t) ==
    /\ transport = "udp_polling"
    /\ pc[t] = "idle"
    /\ udp_mutex_ = NoThread
    /\ \E interval \in PollingIntervals \ {minPollingInterval_} :
         /\ minPollingInterval_' = interval
         /\ Ends(t, [InitLoc EXCEPT !.api = "set_polling_interval"], Void)
    /\ UNCHANGED <<transport, codec, callback, now, ncalls, device, rtuVars, udp_mutex_,
                   responseQueue_, status_, lastPollTime_, bus, expired,
                   lastQuerySent>>

\* datagrams that answer no request of this master: too short, longer than
\* its byte count says, with a damaged CRC, with an unsupported function
\* code, and a well-formed read response
UnrelatedFrames ==
    { <<1, 3, 2>>,
      AppendCrc(<<1, 3, 2, 0, 9, 0>>),
      CorruptCrc(AppendCrc(<<1, 3, 2, 0, 9>>)),
      UnsupportedFrame,
      AppendCrc(<<1, 3, 2, 0, 9>>) }

\* the bus calls handleMsg, which runs handleResponse up to its lock_guard:
\* it returns -1, or has a Response to stage
UdpReceive ==
    /\ transport = "udp_traffic"
    /\ callback.stage = "idle"
    /\ callback.owner = "alive"
    /\ \E msg \in bus : \E size \in MsgSizes(msg.rawData), indeterminate \in Indeterminate :
         LET parsed == handleResponse(msg.rawData, size, indeterminate)
         IN  /\ bus' = bus \ {msg}
             /\ callback' = IF parsed = Dropped
                            THEN [callback EXCEPT !.handled = msg.rawData]
                            ELSE [callback EXCEPT !.handled = msg.rawData,
                                                  !.stage = "parsed",
                                                  !.entry = Staged(parsed.response, msg)]
    /\ ended' = NoCall
    /\ UNCHANGED <<transport, codec, pc, loc, now, ncalls, device, rtuVars, udp_mutex_,
                   responseQueue_, status_, minPollingInterval_, lastPollTime_,
                   expired, lastQuerySent>>

\* handleResponse from its lock_guard on: pop the oldest of ten, push,
\* unlock, notify_one, return 0
UdpStage ==
    /\ transport = "udp_traffic"
    /\ callback.stage = "parsed"
    /\ udp_mutex_ = NoThread
    /\ responseQueue_' = Append(IF Len(responseQueue_) >= 10
                                THEN Tail(responseQueue_) ELSE responseQueue_,
                                callback.entry)
    /\ callback' = [callback EXCEPT !.stage = "idle", !.entry = NoStaged,
                                    !.served = Served(@, callback.entry.answers)]
    /\ ended' = NoCall
    /\ UNCHANGED <<transport, codec, pc, loc, now, ncalls, device, rtuVars, udp_mutex_,
                   status_, minPollingInterval_, lastPollTime_, bus, expired,
                   lastQuerySent>>

\* ~ModbusUdpMaster() = default, once the callers have made their calls:
\* the Impl is destroyed; the handler handed to SubscribeLocal stays
\* subscribed, its owner_ as it was
Destroy ==
    /\ transport = "udp_traffic"
    /\ callback.owner = "alive"
    /\ callback.stage = "idle"
    /\ ncalls = MaxCalls
    /\ \A t \in Threads : pc[t] = "idle"
    /\ callback' = [callback EXCEPT !.owner = "destroyed"]
    /\ ended' = NoCall
    /\ UNCHANGED <<transport, codec, pc, loc, now, ncalls, device, rtuVars, udp_mutex_,
                   responseQueue_, status_, minPollingInterval_, lastPollTime_, bus,
                   expired, lastQuerySent>>

\* the bus calls handleMsg after the Impl was destroyed: owner_ is not null,
\* so handleResponse runs on the destroyed object.  A payload it drops is
\* dropped before any member is read; for one it accepts, the lock_guard and
\* the push work on the destroyed mutex_ and responseQueue_, whose memory
\* takes the push or does not
UdpReceiveDestroyed ==
    /\ transport = "udp_traffic"
    /\ callback.owner = "destroyed"
    /\ \E msg \in bus : \E size \in MsgSizes(msg.rawData), indeterminate \in Indeterminate :
         LET parsed == handleResponse(msg.rawData, size, indeterminate)
         IN  /\ bus' = bus \ {msg}
             /\ IF parsed = Dropped
                THEN /\ callback' = [callback EXCEPT !.handled = msg.rawData]
                     /\ UNCHANGED responseQueue_
                ELSE /\ callback' = [callback EXCEPT !.handled = msg.rawData,
                                                     !.dangling = TRUE]
                     /\ \E pushed \in BOOLEAN :
                          responseQueue_' =
                             IF pushed
                             THEN Append(responseQueue_, Staged(parsed.response, msg))
                             ELSE responseQueue_
    /\ ended' = NoCall
    /\ UNCHANGED <<transport, codec, pc, loc, now, ncalls, device, rtuVars, udp_mutex_,
                   status_, minPollingInterval_, lastPollTime_, expired, lastQuerySent>>

\* time passes
Tick ==
    /\ Datagram
    /\ now < MaxNow
    /\ \E d \in ClockSteps : now' = now + d
    /\ ended' = NoCall
    /\ UNCHANGED <<transport, codec, pc, loc, ncalls, device, rtuVars, udpVars>>

----------------------------------------------------------------------------
(* MasterContract: the helpers of SsModbusMaster over its pure virtual
   send_request *)

\* the value sequences handed to write_multiple_registers
ApiValues == { <<>>, <<3>>, <<3, 4>>, [i \in 1..124 |-> 0] }

\* the calls of the model
ApiCalls ==
    { ApiCall("read_holding_registers", read_holding_registers_request(1, 0, count)) :
          count \in {1, 2, 125} }
    \cup { ApiCall("write_single_register", write_single_register_request(1, 1, 3)) }
    \cup { ApiCall("write_multiple_registers",
                   write_multiple_registers_request(1, 0, values)) :
               values \in ApiValues }

\* what the implementation's send_request may end with
ApiOutcomes(request) ==
    { Returned(ModbusResponse(request.slave_address, request.function_code,
                              data, error)) :
          data \in {<<>>, <<0, 5>>, <<1, 5, 0, 7>>, <<2, 0, 5>>,
                    [i \in 1..250 |-> (7 * i) % 256]},
          error \in {NO_ERROR, 2} }
    \cup { Thrown("Response timeout") }

\* a helper from its entry to its call of send_request: it fills the request
\* in and hands it over
Invoke(t) ==
    /\ transport = "api"
    /\ pc[t] = "idle"
    /\ ncalls < MaxCalls
    /\ ncalls' = ncalls + 1
    /\ \E call \in ApiCalls :
         loc' = [loc EXCEPT ![t] = [InitLoc EXCEPT !.api = call.api,
                                                   !.request = call.request]]
    /\ pc' = [pc EXCEPT ![t] = "send_request"]
    /\ ended' = NoCall
    /\ UNCHANGED <<transport, codec, now, device, rtuVars, udpVars>>

\* send_request ends, and the helper with it: it passes an exception on, or
\* checks response.error (and, reading, the data size) and returns
SendRequestEnds(t) ==
    /\ transport = "api"
    /\ pc[t] = "send_request"
    /\ \E outcome \in ApiOutcomes(loc[t].request) :
         Ends(t, [loc[t] EXCEPT !.outcome = outcome],
              api_return(loc[t].api, loc[t].request, outcome))
    /\ UNCHANGED <<transport, codec, now, ncalls, device, rtuVars, udpVars>>

----------------------------------------------------------------------------
(* The frame codec at work: one input is encoded, possibly damaged by one
   bit, and verified *)

MaxPayload == 3               \* the longest payload given to the codec
PayloadBytes == {0, 1, 255}

Payloads == UNION { [1..n -> PayloadBytes] : n \in 0..MaxPayload }

\* n register values
SomeValues(n) == [i \in 1..n |-> i]

\* the requests given to build_request_frame
CodecRequests ==
    { read_holding_registers_request(1, 0, 2),
      ModbusRequest(1, READ_INPUT_REGISTERS, 16, 1, <<>>),
      write_single_register_request(1, 1, 3),
      ModbusRequest(1, READ_COILS, 0, 1, <<>>) }
    \cup { write_multiple_registers_request(1, 0, SomeValues(n)) :
               n \in {1, 2, 127, 128} }

\* what verify_crc returned
Verdict(accepted) ==
    [kind |-> IF accepted THEN "accepted" ELSE "rejected", what |-> "",
     response |-> NoResponse, values |-> <<>>]

\* the response headers given to get_actual_message_length: address,
\* function code, byte count field
Headers ==
    { <<1, function_code, byte_count>> :
        function_code \in {READ_COILS, READ_HOLDING_REGISTERS, READ_INPUT_REGISTERS,
                           WRITE_SINGLE_REGISTER, WRITE_MULTIPLE_REGISTERS, 131, 144},
        byte_count \in {0, 2, 250} }

\* what get_actual_message_length returned
Length(n) == [kind |-> "length", what |-> "", response |-> NoResponse, values |-> <<n>>]

\* byte with its bit b (0 the lowest) inverted
FlipBit(byte, b) ==
    IF (byte \div (2 ^ b)) % 2 = 1 THEN byte - (2 ^ b) ELSE byte + (2 ^ b)

\* build_request_frame(request): the frame, or its exception
BuildRequestFrame ==
    /\ transport = "codec"
    /\ codec.stage = "request"
    /\ codec' = IF Supported(codec.request.function_code)
                THEN [codec EXCEPT !.stage = "built",
                                   !.frame = build_request_frame(codec.request)]
                ELSE [codec EXCEPT !.stage = "thrown",
                                   !.result = Thrown("Unsupported function code")]
    /\ UNCHANGED <<transport, pc, loc, now, ncalls, ended, device, rtuVars, udpVars>>

\* get_actual_message_length(header)
MessageLength ==
    /\ transport = "codec"
    /\ codec.stage = "header"
    /\ codec' = [codec EXCEPT !.stage = "measured",
                              !.result = Length(get_actual_message_length(codec.payload))]
    /\ UNCHANGED <<transport, pc, loc, now, ncalls, ended, device, rtuVars, udpVars>>

\* calculate_crc over the payload, appended low byte first
EncodePayload ==
    /\ transport = "codec"
    /\ codec.stage = "payload"
    /\ codec' = [codec EXCEPT !.stage = "encoded", !.frame = AppendCrc(codec.payload)]
    /\ UNCHANGED <<transport, pc, loc, now, ncalls, ended, device, rtuVars, udpVars>>

\* one bit of the encoded frame is inverted on its way
DamageFrame ==
    /\ transport = "codec"
    /\ codec.stage = "encoded"
    /\ codec.flips = 0
    /\ \E i \in 1..Len(codec.frame), b \in 0..7 :
         codec' = [codec EXCEPT !.frame[i] = FlipBit(@, b), !.flips = 1]
    /\ UNCHANGED <<transport, pc, loc, now, ncalls, ended, device, rtuVars, udpVars>>

\* verify_crc(frame.data(), frame.size())
VerifyFrame ==
    /\ transport = "codec"
    /\ codec.stage \in {"built", "encoded"}
    /\ codec' = [codec EXCEPT !.stage = "verified",
                              !.result = Verdict(verify_crc(codec.frame, Len(codec.frame)))]
    /\ UNCHANGED <<transport, pc, loc, now, ncalls, ended, device, rtuVars, udpVars>>

----------------------------------------------------------------------------

InitCommon ==
    /\ pc = [t \in Threads |-> "idle"]
    /\ loc = [t \in Threads |-> InitLoc]
    /\ now = 0
    /\ ncalls = 0
    /\ ended = NoCall
    /\ rtu_mutex_ = NoThread
    /\ rxbuf = <<>>
    /\ wire = <<>>
    /\ awaiting = FALSE
    /\ udp_mutex_ = NoThread
    /\ responseQueue_ = <<>>
    /\ status_ = [total_queries |-> 0, failed_queries |-> 0, total_controls |-> 0,
                  failed_controls |-> 0, avg_response_time |-> 0]
    /\ minPollingInterval_ = 100
    /\ lastPollTime_ = now
    /\ bus = {}
    /\ expired = {}
    /\ lastQuerySent = -1
    /\ callback = NoCallback
    /\ codec = NoCodec

InitRtu ==
    /\ transport = "rtu"
    /\ InitCommon
    /\ device \in {s \in Slaves : s.cut < Len(s.frame)}

NextRtu ==
    \/ \E t \in Threads : Call(t)
    \/ \E t \in Threads : RtuSendRequest(t)
    \/ \E t \in Threads : RtuDrain(t)
    \/ \E t \in Threads : RtuRead(t)
    \/ DeviceRespond
    \/ DeviceDeliver

SpecRtu == InitRtu /\ [][NextRtu]_vars

\* the serial transport with slaves that send long read responses, whole or
\* in two bursts
InitRtuLong ==
    /\ transport = "rtu_long"
    /\ InitCommon
    /\ device \in { [frame |-> LongReadFrame(n), cut |-> cut] :
                        n \in LongByteCounts, cut \in {0, 3} }

NextRtuLong ==
    \/ \E t \in Threads : Call(t)
    \/ \E t \in Threads : RtuSendRequest(t)
    \/ \E t \in Threads : RtuDrain(t)
    \/ \E t \in Threads : RtuRead(t)
    \/ DeviceRespond
    \/ DeviceDeliver

SpecRtuLong == InitRtuLong /\ [][NextRtuLong]_vars

\* the serial transport on a noisy line, with threads that keep running
InitRtuNoise ==
    /\ transport = "rtu_noise"
    /\ InitCommon
    /\ device \in {s \in Slaves : s.cut = 0}

NextRtuNoise ==
    \/ \E t \in Threads : Call(t)
    \/ \E t \in Threads : RtuSendRequest(t)
    \/ \E t \in Threads : RtuDrain(t)
    \/ \E t \in Threads : RtuRead(t)
    \/ DeviceRespond
    \/ DeviceDeliver
    \/ LineNoise

\* every thread that can take a step of send_request eventually takes it;
\* the line and the device are free
FairRtu ==
    \A t \in Threads : /\ WF_vars(RtuSendRequest(t))
                       /\ WF_vars(RtuDrain(t))
                       /\ WF_vars(RtuRead(t))

SpecRtuNoise == InitRtuNoise /\ [][NextRtuNoise]_vars /\ FairRtu

InitUdp ==
    /\ transport = "udp"
    /\ InitCommon
    /\ device \in UdpSlaves

NextUdp ==
    \/ \E t \in Threads : Call(t)
    \/ \E t \in Threads : QueryLock(t)
    \/ \E t \in Threads : QuerySend(t)
    \/ \E t \in Threads : QueryWake(t)
    \/ UdpDeliver
    \/ Tick

SpecUdp == InitUdp /\ [][NextUdp]_vars

InitUdpControl ==
    /\ transport = "udp_control"
    /\ InitCommon
    /\ device = "answers"

NextUdpControl ==
    \/ \E t \in Threads : Call(t)
    \/ \E t \in Threads : QueryLock(t)
    \/ \E t \in Threads : QuerySend(t)
    \/ \E t \in Threads : QueryWake(t)
    \/ \E t \in Threads : ControlAsync(t)
    \/ \E t \in Threads : ControlBatch(t)
    \/ \E t \in Threads : ControlBatchStep(t)
    \/ UdpDeliver
    \/ Tick

SpecUdpControl == InitUdpControl /\ [][NextUdpControl]_vars

InitUdpPolling ==
    /\ transport = "udp_polling"
    /\ InitCommon
    /\ device = "answers"

NextUdpPolling ==
    \/ \E t \in Threads : Call(t)
    \/ \E t \in Threads : QueryLock(t)
    \/ \E t \in Threads : QuerySend(t)
    \/ \E t \in Threads : QueryWake(t)
    \/ \E t \in Threads : SetPollingInterval(t)
    \/ UdpDeliver
    \/ Tick

SpecUdpPolling == InitUdpPolling /\ [][NextUdpPolling]_vars

\* a datagram of unrelated traffic is on its way to the subscribed port: the
\* bus hands it over at any time from now on
InitUdpTraffic ==
    /\ transport = "udp_traffic"
    /\ pc = [t \in Threads |-> "idle"]
    /\ loc = [t \in Threads |-> InitLoc]
    /\ now = 0
    /\ ncalls = 0
    /\ ended = NoCall
    /\ device = "truncates"
    /\ rtu_mutex_ = NoThread
    /\ rxbuf = <<>>
    /\ wire = <<>>
    /\ awaiting = FALSE
    /\ udp_mutex_ = NoThread
    /\ responseQueue_ = <<>>
    /\ status_ = [total_queries |-> 0, failed_queries |-> 0, total_controls |-> 0,
                  failed_controls |-> 0, avg_response_time |-> 0]
    /\ minPollingInterval_ = 100
    /\ lastPollTime_ = now
    /\ bus \in { {[rawData |-> rawData, answers |-> 0]} : rawData \in UnrelatedFrames }
    /\ expired = {}
    /\ lastQuerySent = -1
    /\ callback = NoCallback
    /\ codec = NoCodec

NextUdpTraffic ==
    \/ \E t \in Threads : Call(t)
    \/ \E t \in Threads : QueryLock(t)
    \/ \E t \in Threads : QuerySend(t)
    \/ \E t \in Threads : QueryWake(t)
    \/ UdpReceive
    \/ UdpStage
    \/ Destroy
    \/ UdpReceiveDestroyed
    \/ Tick

SpecUdpTraffic == InitUdpTraffic /\ [][NextUdpTraffic]_vars

InitApi ==
    /\ transport = "api"
    /\ InitCommon
    /\ device = "none"

NextApi ==
    \/ \E t \in Threads : Invoke(t)
    \/ \E t \in Threads : SendRequestEnds(t)

SpecApi == InitApi /\ [][NextApi]_vars

InitCodec ==
    /\ transport = "codec"
    /\ pc = [t \in Threads |-> "idle"]
    /\ loc = [t \in Threads |-> InitLoc]
    /\ now = 0
    /\ ncalls = 0
    /\ ended = NoCall
    /\ device = "none"
    /\ rtu_mutex_ = NoThread
    /\ rxbuf = <<>>
    /\ wire = <<>>
    /\ awaiting = FALSE
    /\ udp_mutex_ = NoThread
    /\ responseQueue_ = <<>>
    /\ status_ = [total_queries |-> 0, failed_queries |-> 0, total_controls |-> 0,
                  failed_controls |-> 0, avg_response_time |-> 0]
    /\ minPollingInterval_ = 100
    /\ lastPollTime_ = now
    /\ bus = {}
    /\ expired = {}
    /\ lastQuerySent = -1
    /\ callback = NoCallback
    /\ codec \in { [NoCodec EXCEPT !.stage = "request", !.request = request] :
                      request \in CodecRequests }
                \cup { [NoCodec EXCEPT !.stage = "payload", !.payload = payload] :
                           payload \in Payloads }
                \cup { [NoCodec EXCEPT !.stage = "header", !.payload = header] :
                           header \in Headers }

NextCodec ==
    \/ BuildRequestFrame
    \/ MessageLength
    \/ EncodePayload
    \/ DamageFrame
    \/ VerifyFrame

SpecCodec == InitCodec /\ [][NextCodec]_vars

----------------------------------------------------------------------------
(* Properties *)

\* the trailing two bytes of `frame` are the CRC16/Modbus of the bytes before
\* them, low byte first
FrameCrcOk(frame) ==
    /\ Len(frame) >= 2
    /\ SubSeq(frame, Len(frame) - 1, Len(frame)) =
         SubSeq(AppendCrc(SubSeq(frame, 1, Len(frame) - 2)),
                Len(frame) - 1, Len(frame))

\* a complete normal response: a read response [addr][03|04][N][N bytes][crc]
\* or a write acknowledgement [addr][06|10][4 bytes][crc]
WellFormedNormal(frame) ==
    /\ Len(frame) >= 5
    /\ \/ /\ frame[2] \in {READ_HOLDING_REGISTERS, READ_INPUT_REGISTERS}
          /\ Len(frame) = 3 + frame[3] + 2
       \/ /\ frame[2] \in {WRITE_SINGLE_REGISTER, WRITE_MULTIPLE_REGISTERS}
          /\ Len(frame) = 8
    /\ FrameCrcOk(frame)

\* the failures the spec calls ResponseTimeout
ResponseTimeout ==
    { Thrown(Incomplete(phase)) : phase \in Receiving }

\* a call ended in the last step, after its request was written
RtuExchangeEnded ==
    /\ transport = "rtu"
    /\ ended.thread # NoThread
    /\ ended.call.result \notin { Thrown("Unsupported function code"),
                                  Thrown("Failed to send Modbus request") }

\* the bytes still to come on the channel, in order
Incoming == rxbuf \o Flatten(wire)

\* a call in its exchange: draining the channel, or in its receive phase
Exchanging == Receiving \cup {"drain"}

\* C3: at most one exchange is in progress at any time: no two calls are in
\* their exchange (drain, write, receive) together, the call in its exchange
\* holds the lock, a call that touched the channel and ended did so while no
\* other call was in its exchange, and the lock is free whenever no call is
\* in its exchange (released on every exit path).
C3_OneAtATime ==
    /\ Cardinality({t \in Threads : pc[t] \in Exchanging}) <= 1
    /\ \A t \in Threads : pc[t] \in Exchanging => rtu_mutex_ = t
    /\ (\A t \in Threads : pc[t] \notin Exchanging) => rtu_mutex_ = NoThread
    /\ (ended.thread # NoThread /\ ended.call.result # Thrown("Unsupported function code"))
          => \A u \in Threads : u # ended.thread => pc[u] \notin Exchanging

\* a second caller is blocked while the first is in its receive phase
C3_Witness ==
    \E t, u \in Threads : t # u /\ pc[t] \in Receiving /\ pc[u] = "called"

\* a call ended in the last step with a Response
CallReturned ==
    /\ ended.thread # NoThread
    /\ ended.call.result.kind = "response"

\* the frame the Response of the call that ended was made from.  On the RTU
\* side it is what the receive phase read; for an exception frame, whose
\* trailer the receive phase does not read, it is the three bytes read and
\* the two bytes that follow them on the channel.  On the datagram side it is
\* the payload handleResponse parsed.
ReceivedFrame ==
    LET call == ended.call
    IN  IF transport = "rtu" /\ Len(call.received) = 3 /\ IsException(call.received[2])
        THEN call.received \o SubSeq(Incoming, 1, Min(2, Len(Incoming)))
        ELSE call.received

\* C4: no Response is produced from a received frame (of five bytes or more:
\* with its trailer) whose two trailing bytes are not the CRC16/Modbus, low
\* byte first, of its preceding bytes.
C4_CrcGate ==
    CallReturned => (Len(ReceivedFrame) >= 5 => FrameCrcOk(ReceivedFrame))

\* C5: a complete well-formed normal response with a correct CRC, read in
\* the receive phase, makes send_request return a Response.
C5_AcceptsValidFrames ==
    (RtuExchangeEnded /\ WellFormedNormal(ended.call.received))
       => ended.call.result.kind = "response"

\* C6: the timeout bounds the whole receive phase: a call that does not end
\* with ResponseTimeout read its last byte no later than the timeout (and
\* the one polling step the loop may add) after the receive phase began.
C6_SingleDeadline ==
    (RtuExchangeEnded /\ ended.call.result \notin ResponseTimeout)
       => ended.call.arrived <= ended.call.timeout + PollSleep

C10_RejectsIllegalLengths ==
    \A t \in Threads :
        (pc[t] = "send_request" /\ loc[t].api = "write_multiple_registers")
           => Len(loc[t].request.values) \in 1..123

\* a call of read_holding_registers ended in the last step, after
\* send_request had returned a Response to it
ReadReturned ==
    /\ transport = "api"
    /\ ended.thread # NoThread
    /\ ended.call.api = "read_holding_registers"
    /\ ended.call.outcome.kind = "response"
    /\ ended.call.request.register_count \in 1..125

\* C11: when send_request returns a Response with error NO_ERROR and data of
\* length 2*count, read_holding_registers returns exactly count values, value
\* i (from 0) being data[2i]*256 + data[2i+1].
C11_Decoding ==
    LET count == ended.call.request.register_count
        response == ended.call.outcome.response
        data == response.data
        result == ended.call.result
    IN  (ReadReturned /\ response.error = NO_ERROR /\ Len(data) = 2 * count)
           => /\ result.kind = "values"
              /\ Len(result.values) = count
              /\ \A i \in 1..count :
                   result.values[i] = (data[(2 * i) - 1] * 256) + data[2 * i]

\* 125 registers were decoded, and two whose bytes differ
C11_Witness ==
    /\ ReadReturned
    /\ ended.call.result.kind = "values"
    /\ \/ ended.call.request.register_count = 125
       \/ ended.call.result.values = <<261, 7>>

\* C12 as stated: every Response whose data length differs from 2N makes
\* read_holding_registers(count = N) fail with InvalidResponseSize.
C12_SizeCheck ==
    (ReadReturned
        /\ Len(ended.call.outcome.response.data) # 2 * ended.call.request.register_count)
       => ended.call.result = Thrown("Invalid response data size")

\* C12, amended: a Response with error NO_ERROR whose data length differs
\* from 2N makes read_holding_registers(count = N) fail with
\* InvalidResponseSize; a Response with another error code makes it fail with
\* the protocol error, whatever its data; no values are returned in either
\* case.
C12_SizeCheckOnSuccess ==
    LET count == ended.call.request.register_count
        response == ended.call.outcome.response
    IN  /\ (ReadReturned /\ response.error = NO_ERROR /\ Len(response.data) # 2 * count)
              => ended.call.result = Thrown("Invalid response data size")
        /\ (ReadReturned /\ response.error # NO_ERROR)
              => ended.call.result = Thrown("Modbus error")

\* a Response without error and with one byte too many was refused
C12_Witness ==
    /\ ReadReturned
    /\ ended.call.request.register_count = 1
    /\ ended.call.outcome.response = ModbusResponse(1, READ_HOLDING_REGISTERS,
                                                    <<2, 0, 5>>, NO_ERROR)
    /\ ended.call.result = Thrown("Invalid response data size")


\* the frame build_request_frame made of `request`
Built(request) == codec.stage = "built" /\ codec.request = request

\* C13: the frame built for slave 1, read-holding-registers, start 0x0000,
\* count 2 is exactly the 8 bytes 01 03 00 00 00 02 C4 0B.
C13_ReadFrame ==
    Built(read_holding_registers_request(1, 0, 2))
        => codec.frame = <<1, 3, 0, 0, 0, 2, 196, 11>>

C13_Witness ==
    /\ Built(read_holding_registers_request(1, 0, 2))
    /\ Len(codec.frame) = 8

\* C14 as stated: the frame built for slave 1, write-single-register,
\* address 0x0001, value 0x0003 is exactly 01 06 00 01 00 03 9A 9B.
C14_WriteFrame ==
    Built(write_single_register_request(1, 1, 3))
        => codec.frame = <<1, 6, 0, 1, 0, 3, 154, 155>>

\* C14 amended: the frame built for slave 1, write-single-register, address
\* 0x0001, value 0x0003 is exactly 01 06 00 01 00 03 98 0B.
C14_WriteFrameCrc ==
    Built(write_single_register_request(1, 1, 3))
        => codec.frame = <<1, 6, 0, 1, 0, 3, 152, 11>>

C14_Witness ==
    /\ Built(write_single_register_request(1, 1, 3))
    /\ SubSeq(codec.frame, 1, 6) = <<1, 6, 0, 1, 0, 3>>

\* C15: verify_crc accepts every payload followed by its CRC, low byte then
\* high byte, and rejects every such frame with any one bit inverted.
C15_RoundTrip ==
    (codec.stage = "verified" /\ codec.request = NoRequest)
        => /\ Len(codec.frame) = Len(codec.payload) + 2
           /\ (codec.flips = 0 => codec.result = Verdict(TRUE))
           /\ (codec.flips = 1 => codec.result = Verdict(FALSE))

C15_Witness ==
    /\ codec.stage = "verified"
    /\ codec.request = NoRequest
    /\ Len(codec.payload) = MaxPayload
    /\ codec.flips = 1
    /\ SubSeq(codec.frame, 1, Len(codec.payload)) = codec.payload

\* C16: in the frame built for a write-multiple-registers request, the byte
\* count field is 2 * len(values), it is followed by len(values) big-endian
\* values (and the CRC), and the register count field is len(values).
C16_ByteCount ==
    (codec.stage = "built" /\ codec.request.function_code = WRITE_MULTIPLE_REGISTERS)
        => LET values == codec.request.values
           IN  /\ codec.frame[7] = 2 * Len(values)
               /\ Len(codec.frame) = 7 + (2 * Len(values)) + 2
               /\ \A i \in 1..Len(values) :
                     (codec.frame[7 + (2 * i) - 1] * 256) + codec.frame[7 + (2 * i)]
                         = values[i]
               /\ (codec.frame[5] * 256) + codec.frame[6] = Len(values)

\* thread t's call of `api` ended in the last step
ApiEnded(api) == ended.thread # NoThread /\ ended.call.api = api

\* C17: control_batch calls control_async for every element of its list,
\* whatever happened to the elements before it (a rejected send, or a request
\* that cannot be encoded).
C17_BatchAttemptsAll ==
    ApiEnded("control_batch") => ended.call.attempted = Len(ended.call.batch)

\* C18: a control_async whose send the bus rejects returns normally, adds
\* one to failed_controls, leaves total_queries, failed_queries, the average
\* response time, the rate-limit timestamp and the staged-response queue as
\* they were, and runs from call to return without taking the shared lock or
\* waiting on the queue.
C18_SendFailure ==
    [][ (ended'.thread # NoThread /\ ended'.call.api = "control_async"
            /\ ended'.call.send_failed)
        => /\ ended'.call.result = Void
           /\ pc[ended'.thread] = "called"
           /\ status_'.failed_controls = status_.failed_controls + 1
           /\ status_'.total_queries = status_.total_queries
           /\ status_'.failed_queries = status_.failed_queries
           /\ status_'.avg_response_time = status_.avg_response_time
           /\ lastPollTime_' = lastPollTime_
           /\ responseQueue_' = responseQueue_
           /\ udp_mutex_' = udp_mutex_ ]_vars

\* a control_async whose send failed has just returned while another thread
\* holds the lock in query and a response is staged
C18_Witness ==
    /\ ApiEnded("control_async")
    /\ ended.call.send_failed
    /\ ended.call.result = Void
    /\ status_.failed_controls = 1
    /\ udp_mutex_ \in Threads \ {ended.thread}

\* a query hands its frame to the message bus in this step
QueryFrameSent ==
    \E t \in Threads :
        /\ pc[t] = "locked"
        /\ \/ pc'[t] = "waiting"
           \/ ended'.thread = t
                /\ ended'.call.result = Thrown("Failed to send Modbus request")

\* C19: two consecutive query frames are handed to the message bus at least
\* the minimum polling interval in force apart.
C19_RateLimit ==
    [][ (QueryFrameSent /\ lastQuerySent # -1)
        => now' - lastQuerySent >= minPollingInterval_ ]_vars

\* a second query frame has been sent, by a call that found the interval
\* raised to 200 ms and slept until it was over
C19_Witness ==
    /\ \E t \in Threads : pc[t] = "waiting" /\ loc[t].n = 2
                            /\ loc[t].wake = loc[t].start_time
                            /\ loc[t].start_time = lastQuerySent
    /\ minPollingInterval_ = 200
    /\ lastQuerySent >= 200

Malformed(rawData) ==
    \/ Len(rawData) < 4
    \/ ~IsException(rawData[2]) /\ ~Supported(rawData[2])
    \/ Len(rawData) # (IF IsException(rawData[2]) THEN 5
                       ELSE IF rawData[2] \in {READ_HOLDING_REGISTERS, READ_INPUT_REGISTERS}
                       THEN 5 + rawData[3]
                       ELSE 8)
    \/ ~FrameCrcOk(rawData)

\* C21: the delivery callback, handed a malformed payload, stages nothing,
\* completes no waiter and leaves the statistics and the lock as they were.
C21_DropsBadInput ==
    [][ \A msg \in bus \ bus' :
          Malformed(msg.rawData)
             => /\ responseQueue_' = responseQueue_
                /\ callback'.stage = "idle"
                /\ pc' = pc
                /\ status_' = status_
                /\ udp_mutex_' = udp_mutex_
                /\ ended' = NoCall ]_vars

\* the callback has dropped a payload with a damaged CRC while a query waits
C21_Witness ==
    /\ callback.handled = CorruptCrc(AppendCrc(<<1, 3, 2, 0, 9>>))
    /\ callback.stage = "idle"
    /\ responseQueue_ = <<>>
    /\ \E t \in Threads : pc[t] = "waiting"

Actor(t) == pc'[t] # pc[t] \/ loc'[t] # loc[t]

\* thread t holds the shared lock while it takes this step: it is in query
\* between its unique_lock and cv_.wait_for, or cv_.wait_for takes the lock
\* again before it returns
HoldsLock(t) ==
    \/ pc[t] = "locked" /\ udp_mutex_ = t
    \/ pc[t] = "waiting" /\ udp_mutex_ = NoThread

\* C23: a caller thread that writes the staged-response queue, the
\* rate-limit timestamp, the polling interval or a statistics counter holds
\* the shared lock while it does.
C23_LockDiscipline ==
    [][ \A t \in Threads :
          (Actor(t) /\ <<responseQueue_, lastPollTime_, minPollingInterval_, status_>>'
                          # <<responseQueue_, lastPollTime_, minPollingInterval_, status_>>)
             => HoldsLock(t) ]_vars

\* C24: the channel is drained before the request is written: what a call
\* in its receive phase has read, and what is left to read, is what came over
\* the line since the write (the bytes that were on the line then, and the
\* slave's answer), and no byte that was buffered before it.
C24_DrainBeforeWrite ==
    \A t \in Threads :
        (transport = "rtu" /\ pc[t] \in Receiving)
           => Len(loc[t].received) + Len(rxbuf) + Len(Flatten(wire))
                  + (IF awaiting THEN Len(device.frame) ELSE 0)
                = loc[t].inflight + Len(device.frame)

\* a call that found bytes buffered when it began has returned a Response
C24_Witness ==
    /\ transport = "rtu"
    /\ CallReturned
    /\ ended.call.stale > 0

C26_ExpectedFrameLength ==
    codec.stage = "measured"
       => LET function_code == codec.payload[2]
              byte_count == codec.payload[3]
          IN  /\ IsException(function_code) => codec.result = Length(5)
              /\ function_code \in {WRITE_SINGLE_REGISTER, WRITE_MULTIPLE_REGISTERS}
                    => codec.result = Length(8)
              /\ function_code \in {READ_HOLDING_REGISTERS, READ_INPUT_REGISTERS}
                    => codec.result = Length(5 + byte_count)

\* C27: a send_request call that incremented total_queries and ends with a
\* failure increments failed_queries by one (so that, with no call in
\* progress, total_queries is the number of responses returned plus
\* failed_queries), and failed_queries never exceeds total_queries.
C27_QueryAccounting ==
    [][ /\ status_'.failed_queries <= status_'.total_queries
        /\ (Datagram /\ ended'.thread # NoThread /\ ended'.call.api = "send_request"
               /\ ended'.call.n > 0 /\ ended'.call.result.kind = "error")
              => status_'.failed_queries = status_.failed_queries + 1 ]_vars

C30_LockReleased ==
    \A t \in Threads : (rtu_mutex_ = t) ~> (rtu_mutex_ # t)

\* C31 (receive buffer bounds): whatever byte count a read response
\* announces, every read of the receive phase asks for bytes that fit the
\* 256-byte receive buffer (offset + length <= 256), and the buffer the CRC
\* check indexes is no longer than that.
C31_BufferBounds ==
    Serial => \A t \in Threads :
                 pc[t] \in Receiving
                    => /\ loc[t].offset + loc[t].length <= BufferSize
                       /\ Len(loc[t].buffer) <= BufferSize

\* C32 (response matches its request): the Response a send_request call
\* returns has the slave address of the request and the function code of
\* the request, or that code with bit 0x80 set.
C32_ResponseMatchesRequest ==
    (CallReturned /\ ended.call.api = "send_request")
        => LET request == ended.call.request
               response == ended.call.result.response
           IN  /\ response.slave_address = request.slave_address
               /\ response.function_code \in {request.function_code,
                                               request.function_code + 128}

========================================================================
